---- MODULE Spec2Model ----
(***************************************************************************)
(* The repository-summary pipeline of gojiplus/generator.                  *)
(*                                                                         *)
(* Two variants of the script are modelled, selected by `variant`:         *)
(*   "json"  src/scripts/gen_repo_summaries.py  (portfolio JSON output)    *)
(*   "csv"   src/get_repo_summaries.py          (CSV output; the file      *)
(*           src/gen_repo_summaries.py is the same program with a          *)
(*           user/org switch in the listing URL)                           *)
(*                                                                         *)
(* Strings that the code inspects character by character (full names,      *)
(* list entries) are sequences of one-character strings.  Texts the code   *)
(* only tests for emptiness are "" or an opaque non-empty tag.  Fields the *)
(* code copies verbatim and never reads (URL, language, open issues,       *)
(* topics) are left out of the repository objects.                         *)
(***************************************************************************)
EXTENDS Integers, Sequences, FiniteSets, TLC

VARIABLES
    variant,      \* which script runs: "json" | "csv"
    gh_token,     \* os.getenv('GITHUB_TOKEN')   (json), --github_token (csv)
    oa_key,       \* os.getenv('OPENAI_API_KEY') (json), --openai_api_key (csv)
    repo_list,    \* json: the parsed --repos list, <<>> when --org_name is given
    use_repos,    \* json: TRUE when args.repos is truthy
    pc,           \* position of the single thread of control
    i,            \* index of the running loop (0-based count of items done)
    repos_json,   \* the listing result
    rows,         \* the DataFrame rows, in order
    written,      \* the output file: [state, content], state "none" before open()
    term,         \* "running" | "exit" (sys.exit or return of main) | "uncaught"
    exit_status,  \* process exit status once term # "running"
    diag,         \* diagnostics the program itself printed for caught errors
    log           \* network calls issued so far, in order

vars == <<variant, gh_token, oa_key, repo_list, use_repos, pc, i, repos_json,
          rows, written, term, exit_status, diag, log>>

----------------------------------------------------------------------------
(* Bounds of the model *)

\* longest listing result and longest --repos list explored
MaxRepos == 2

(* Program constants *)

\* main: row['Stars'] > 5
FeaturedStars == 5
\* main: row['Forks'] > 2
FeaturedForks == 2

----------------------------------------------------------------------------
(* Values *)

NoneV == "<None>"

\* Python truthiness of an optional string
Truthy(s) == s # NoneV /\ s # ""

\* what os.getenv can give for one variable: unset, set but empty, set
EnvValues == {NoneV, "", "tok"}

\* Repository objects the hosting API may return.  "x" carries a full_name
\* without '/', the case create_repo_dataframe tests for.
RepoPool ==
    { [full_name |-> <<"o", "/", "a">>, description |-> "",
       stargazers_count |-> 5, forks_count |-> 2],
      [full_name |-> <<"o", "/", "b">>, description |-> "d",
       stargazers_count |-> 6, forks_count |-> 0],
      [full_name |-> <<"o", "/", "c">>, description |-> "d",
       stargazers_count |-> 0, forks_count |-> 3],
      [full_name |-> <<"o", "/", "e">>, description |-> "",
       stargazers_count |-> 6, forks_count |-> 2],
      [full_name |-> <<"x">>, description |-> "d",
       stargazers_count |-> 10, forks_count |-> 0] }

\* entries a user may pass in --repos (already stripped, non-empty)
EntryPool == { <<"o", "/", "a">>, <<"o", "/", "b">>, <<"x">> }

\* sequences without repetition over S, of length at most n
InjSeqs(S, n) ==
    UNION { { s \in [1..k -> S] : \A a, b \in 1..k : a # b => s[a] # s[b] }
            : k \in 0..n }

\* the repository object the API returns for a well-formed entry
RepoOf(full) == CHOOSE r \in RepoPool : r.full_name = full

----------------------------------------------------------------------------
(* Pure helpers of the scripts *)

\* '/' in full
HasSlash(full) == \E k \in 1..Len(full) : full[k] = "/"

\* position of the first '/' of full (full has one)
FirstSlash(full) ==
    CHOOSE k \in 1..Len(full) :
        full[k] = "/" /\ \A j \in 1..(k - 1) : full[j] # "/"

\* full.split('/', 1): <<org, name>>; a one-element tuple without '/'
split_full(full) ==
    IF HasSlash(full)
    THEN << SubSeq(full, 1, FirstSlash(full) - 1),
            SubSeq(full, FirstSlash(full) + 1, Len(full)) >>
    ELSE << full >>

\* csv: repo['name'], the last component of the full name
name_of(r) == split_full(r.full_name)[Len(split_full(r.full_name))]

\* an environment check that fires only when both variables are missing
env_missing_both(tok, key) == ~Truthy(tok) /\ ~Truthy(key)

\* json main: `not gh_token or not oa_key`
env_missing(tok, key) == ~Truthy(tok) \/ ~Truthy(key)

\* json create_repo_dataframe: the test guarding `continue`
skip_repo(r) == ~HasSlash(r.full_name)

\* one network call
Call(op, target) == [op |-> op, target |-> target]

\* one diagnostic line
Diag(kind, about) == [kind |-> kind, about |-> about]

(* What the hosting API can do on a README fetch:                          *)
(*   meta_fail  the metadata request fails (transport or HTTP status)      *)
(*   no_key     2xx metadata without a 'download_url' key                  *)
(*   null_url   2xx metadata whose 'download_url' is null                  *)
(*   dl_fail    the download request raises                                *)
(*   dl_empty   the download returns an empty body                         *)
(*   dl_text    the download returns text                                  *)
ReadmeOutcomes ==
    {"meta_fail", "no_key", "null_url", "dl_fail", "dl_empty", "dl_text"}

\* a fetch_readme that asks for the metadata a second time when the first
\* request fails
fetch_readme_retry(full, o) ==
    CASE o = "meta_fail" ->
           [exc |-> "RequestException", text |-> "",
            calls |-> << Call("readme", full), Call("readme", full) >>]
      [] o \in {"no_key", "null_url"} ->
           [exc |-> "", text |-> "", calls |-> << Call("readme", full) >>]
      [] o = "dl_fail" ->
           [exc |-> "RequestException", text |-> "",
            calls |-> << Call("readme", full), Call("download", full) >>]
      [] o = "dl_empty" ->
           [exc |-> "", text |-> "",
            calls |-> << Call("readme", full), Call("download", full) >>]
      [] o = "dl_text" ->
           [exc |-> "", text |-> "txt",
            calls |-> << Call("readme", full), Call("download", full) >>]

\* json fetch_readme: exc is the exception leaving the function ("" = none)
fetch_readme(full, o) ==
    CASE o = "meta_fail" ->
           [exc |-> "RequestException", text |-> "",
            calls |-> << Call("readme", full) >>]
      [] o \in {"no_key", "null_url"} ->
           [exc |-> "", text |-> "", calls |-> << Call("readme", full) >>]
      [] o = "dl_fail" ->
           [exc |-> "RequestException", text |-> "",
            calls |-> << Call("readme", full), Call("download", full) >>]
      [] o = "dl_empty" ->
           [exc |-> "", text |-> "",
            calls |-> << Call("readme", full), Call("download", full) >>]
      [] o = "dl_text" ->
           [exc |-> "", text |-> "txt",
            calls |-> << Call("readme", full), Call("download", full) >>]

\* csv fetch_readme: RequestException is caught inside and turned into an
\* error string; the KeyError of readme_data['download_url'] is not.
\* requests.get(None) raises MissingSchema, a RequestException, before any
\* request is sent.
fetch_readme_csv(full, o) ==
    CASE o = "meta_fail" ->
           [exc |-> "", text |-> "Error fetching README",
            calls |-> << Call("readme", full) >>]
      [] o = "no_key" ->
           [exc |-> "KeyError", text |-> "",
            calls |-> << Call("readme", full) >>]
      [] o = "null_url" ->
           [exc |-> "", text |-> "Error fetching README",
            calls |-> << Call("readme", full) >>]
      [] o = "dl_fail" ->
           [exc |-> "", text |-> "Error fetching README",
            calls |-> << Call("readme", full), Call("download", full) >>]
      [] o = "dl_empty" ->
           [exc |-> "", text |-> "",
            calls |-> << Call("readme", full), Call("download", full) >>]
      [] o = "dl_text" ->
           [exc |-> "", text |-> "txt",
            calls |-> << Call("readme", full), Call("download", full) >>]

\* what the completion endpoint can do: answer, or make the try block raise
\* (API error, transport error, a response without text)
LlmOutcomes == {"ok", "raise"}

\* a summarizer without the test for empty inputs
summarize_readme_unguarded(content, description, o) ==
    IF o = "ok"
    THEN [called |-> TRUE, value |-> "llm text"]
    ELSE IF Truthy(description)
    THEN [called |-> TRUE, value |-> "description fallback"]
    ELSE [called |-> TRUE, value |-> "[Error generating summary]"]

\* json summarize_readme
summarize_readme(content, description, o) ==
    IF ~Truthy(content) /\ ~Truthy(description)
    THEN [called |-> FALSE, value |-> ""]
    ELSE IF o = "ok"
    THEN [called |-> TRUE, value |-> "llm text"]
    ELSE IF Truthy(description)
    THEN [called |-> TRUE, value |-> "description fallback"]
    ELSE [called |-> TRUE, value |-> "[Error generating summary]"]

\* csv summarize_readme
summarize_readme_csv(content, o) ==
    IF o = "ok"
    THEN [called |-> TRUE, value |-> "llm text"]
    ELSE [called |-> TRUE, value |-> "Error generating summary"]

\* json create_repo_dataframe: the row appended for repository r
make_row(r, readme) ==
    [Name |-> split_full(r.full_name)[2], FullName |-> r.full_name,
     Description |-> r.description, Stars |-> r.stargazers_count,
     Forks |-> r.forks_count, README |-> readme, Summary |-> NoneV]

\* csv create_repo_dataframe: the row appended for repository r (FullName
\* stands for the URL column, which identifies the repository)
make_row_csv(r, readme) ==
    [Name |-> name_of(r), FullName |-> r.full_name,
     Description |-> r.description, Stars |-> r.stargazers_count,
     Forks |-> r.forks_count, README |-> readme, Summary |-> NoneV]

\* a star threshold that includes its bound
featured_inclusive(stars, forks) ==
    stars >= FeaturedStars \/ forks > FeaturedForks

\* json main: row['Stars'] > 5 or row['Forks'] > 2
featured(stars, forks) == stars > FeaturedStars \/ forks > FeaturedForks

\* json main: the record built from one row
make_record(row) ==
    [name |-> row.Name, fullName |-> row.FullName,
     description |-> row.Description, stars |-> row.Stars,
     forks |-> row.Forks, summary |-> row.Summary,
     featured |-> featured(row.Stars, row.Forks)]

\* json main: the loop building `records`
build_records(df) == [k \in 1..Len(df) |-> make_record(df[k])]

\* x placed behind every element of the descending sequence s whose stars
\* are >= x.stars
InsertDesc(s, x) ==
    LET n == Cardinality({k \in 1..Len(s) : s[k].stars >= x.stars})
    IN  SubSeq(s, 1, n) \o << x >> \o SubSeq(s, n + 1, Len(s))

RECURSIVE StableSortDesc(_)
StableSortDesc(s) ==
    IF s = << >> THEN << >>
    ELSE InsertDesc(StableSortDesc(SubSeq(s, 1, Len(s) - 1)), s[Len(s)])

\* a sort without reverse=True: ascending by stars
sort_records_ascending(recs) ==
    LET d == StableSortDesc(recs)
    IN  [k \in 1..Len(d) |-> d[Len(d) + 1 - k]]

\* json main: records.sort(key=lambda x: x['stars'], reverse=True), a stable
\* sort that keeps the order of records with equal stars
sort_records(recs) == StableSortDesc(recs)

----------------------------------------------------------------------------
(* Initial state: the command line is parsed, nothing has run yet *)

EmptyFile == [state |-> "none", content |-> << >>]

Init ==
    /\ variant \in {"json", "csv"}
    /\ IF variant = "json"
       THEN /\ gh_token \in EnvValues
            /\ oa_key \in EnvValues
            /\ use_repos \in BOOLEAN
            /\ repo_list \in IF use_repos
                             THEN InjSeqs(EntryPool, MaxRepos)
                             ELSE { << >> }
       ELSE \* csv: both credentials are required command-line flags
            /\ gh_token = "tok"
            /\ oa_key = "tok"
            /\ use_repos = FALSE
            /\ repo_list = << >>
    /\ pc = "start"
    /\ i = 0
    /\ repos_json = << >>
    /\ rows = << >>
    /\ written = EmptyFile
    /\ term = "running"
    /\ exit_status = 0
    /\ diag = {}
    /\ log = << >>

\* sys.exit(status), or main returning (status 0)
Exit(status) == term' = "exit" /\ exit_status' = status

\* an exception nobody catches: traceback, interpreter exits with status 1
Uncaught == term' = "uncaught" /\ exit_status' = 1

----------------------------------------------------------------------------
(* json main: environment check and choice of the listing mode *)
main_env ==
    /\ term = "running" /\ pc = "start" /\ variant = "json"
    /\ IF env_missing(gh_token, oa_key)
       THEN /\ diag' = diag \cup {Diag("env_missing", << >>)}
            /\ Exit(1)
            /\ UNCHANGED pc
       ELSE /\ pc' = IF ~use_repos THEN "list"
                     ELSE IF repo_list = << >> THEN "check" ELSE "specific"
            /\ UNCHANGED <<diag, term, exit_status>>
    /\ UNCHANGED <<variant, gh_token, oa_key, repo_list, use_repos, i,
                   repos_json, rows, written, log>>

(* csv main: the credentials are taken from the flags, nothing is checked *)
main_csv ==
    /\ term = "running" /\ pc = "start" /\ variant = "csv"
    /\ pc' = "list"
    /\ UNCHANGED <<variant, gh_token, oa_key, repo_list, use_repos, i,
                   repos_json, rows, written, term, exit_status, diag, log>>

(* json fetch_repositories: an unauthenticated attempt, then one with the  *)
(* token.  first/second: "ok" (status 200), "status" (another status),     *)
(* "exc" (requests.get raises).  A failed first attempt prints the status  *)
(* or the exception.  The second attempt is outside any try, prints the    *)
(* response of a status other than 200 and ends with raise_for_status().   *)
fetch_repositories ==
    /\ term = "running" /\ pc = "list" /\ variant = "json"
    /\ \E first \in {"ok", "status", "exc"}, second \in {"ok", "status", "exc"},
          listing \in InjSeqs(RepoPool, MaxRepos) :
         LET d1 == diag \cup {Diag(IF first = "status" THEN "public_status"
                                   ELSE "public_attempt_failed", << >>)}
         IN  IF first = "ok"
             THEN /\ log' = log \o << Call("list", << >>) >>
                  /\ repos_json' = listing
                  /\ pc' = "check"
                  /\ UNCHANGED <<term, exit_status, diag>>
             ELSE IF second = "ok"
             THEN /\ log' = log \o << Call("list", << >>), Call("list", << >>) >>
                  /\ diag' = d1
                  /\ repos_json' = listing
                  /\ pc' = "check"
                  /\ UNCHANGED <<term, exit_status>>
             ELSE /\ log' = log \o << Call("list", << >>), Call("list", << >>) >>
                  /\ diag' = IF second = "status"
                             THEN d1 \cup {Diag("list_response", << >>)}
                             ELSE d1
                  /\ Uncaught
                  /\ UNCHANGED <<repos_json, pc>>
    /\ UNCHANGED <<variant, gh_token, oa_key, repo_list, use_repos, i, rows,
                   written>>

(* csv fetch_repositories: one attempt inside try/except                   *)
fetch_repositories_csv ==
    /\ term = "running" /\ pc = "list" /\ variant = "csv"
    /\ \E out \in {"ok", "fail"}, listing \in InjSeqs(RepoPool, MaxRepos) :
         /\ log' = log \o << Call("list", << >>) >>
         /\ IF out = "ok"
            THEN repos_json' = listing /\ UNCHANGED diag
            ELSE /\ repos_json' = << >>
                 /\ diag' = diag \cup {Diag("list_error", << >>)}
    /\ pc' = "check"
    /\ UNCHANGED <<variant, gh_token, oa_key, repo_list, use_repos, i, rows,
                   written, term, exit_status>>

(* json fetch_specific_repos: one iteration of the loop over repo_list     *)
fetch_specific_repos ==
    /\ term = "running" /\ pc = "specific" /\ variant = "json"
    /\ LET full == repo_list[i + 1]
           next_pc == IF i + 1 = Len(repo_list) THEN "check" ELSE "specific"
           next_i == IF i + 1 = Len(repo_list) THEN 0 ELSE i + 1
       IN  IF Len(split_full(full)) # 2
           THEN \* ValueError on unpacking: warn and continue
                /\ diag' = diag \cup {Diag("invalid_format", full)}
                /\ pc' = next_pc /\ i' = next_i
                /\ UNCHANGED <<repos_json, log, term, exit_status>>
           ELSE \E out \in {"ok", "status", "exc"} :
                /\ log' = log \o << Call("repo", full) >>
                /\ CASE out = "ok" ->
                          /\ repos_json' = Append(repos_json, RepoOf(full))
                          /\ pc' = next_pc /\ i' = next_i
                          /\ UNCHANGED <<diag, term, exit_status>>
                     [] out = "status" ->
                          /\ diag' = diag \cup {Diag("could_not_fetch", full)}
                          /\ pc' = next_pc /\ i' = next_i
                          /\ UNCHANGED <<repos_json, term, exit_status>>
                     [] out = "exc" ->
                          \* requests.get raises outside any try
                          /\ Uncaught
                          /\ UNCHANGED <<repos_json, diag, pc, i>>
    /\ UNCHANGED <<variant, gh_token, oa_key, repo_list, use_repos, rows,
                   written>>

(* main: the test of the listing result *)
check_repos ==
    /\ term = "running" /\ pc = "check"
    /\ IF repos_json = << >>
       THEN /\ diag' = diag \cup {Diag("no_repos", << >>)}
            /\ Exit(IF variant = "json" THEN 1 ELSE 0)
            /\ UNCHANGED <<pc, i>>
       ELSE /\ pc' = "rows" /\ i' = 0
            /\ UNCHANGED <<diag, term, exit_status>>
    /\ UNCHANGED <<variant, gh_token, oa_key, repo_list, use_repos,
                   repos_json, rows, written, log>>

----------------------------------------------------------------------------
(* The per-repository loops *)

\* a pipeline that summarizes each row as soon as it is built
next_after_row_interleaved(done, total, nrows) ==
    IF nrows > 0 THEN "summaries"
    ELSE IF done < total THEN "rows" ELSE "serialize"

\* main: create_repo_dataframe runs over every repository and returns
\* before add_summaries is called; a frame without rows has nothing to
\* summarize.  done/total count the repositories, nrows the rows built.
next_after_row(done, total, nrows) ==
    IF done < total THEN "rows"
    ELSE IF nrows = 0 THEN "serialize" ELSE "summaries"

\* a create_repo_dataframe whose except branch skips the repository
rows_after_drop(df, r, res) ==
    IF res.exc # "" THEN df ELSE Append(df, make_row(r, res.text))

\* json create_repo_dataframe: try fetch_readme / except Exception: ""
rows_after(df, r, res) ==
    Append(df, make_row(r, IF res.exc # "" THEN "" ELSE res.text))

(* json create_repo_dataframe: one iteration of the loop over repos *)
create_repo_dataframe ==
    /\ term = "running" /\ pc = "rows" /\ variant = "json"
    /\ LET r == repos_json[i + 1]
       IN  IF skip_repo(r)
           THEN UNCHANGED <<rows, log>>
           ELSE \E o \in ReadmeOutcomes :
                  LET res == fetch_readme(r.full_name, o)
                  IN  /\ rows' = rows_after(rows, r, res)
                      /\ log' = log \o res.calls
    /\ pc' = next_after_row(i + 1, Len(repos_json), Len(rows'))
    /\ i' = IF pc' = "rows" THEN i + 1 ELSE 0
    /\ UNCHANGED <<variant, gh_token, oa_key, repo_list, use_repos,
                   repos_json, written, term, exit_status, diag>>

(* csv create_repo_dataframe: one iteration; an exception that leaves      *)
(* fetch_readme leaves main too                                            *)
create_repo_dataframe_csv ==
    /\ term = "running" /\ pc = "rows" /\ variant = "csv"
    /\ \E o \in ReadmeOutcomes :
         LET r == repos_json[i + 1]
             res == fetch_readme_csv(r.full_name, o)
         IN  /\ log' = log \o res.calls
             /\ IF res.exc # ""
                THEN /\ Uncaught
                     /\ UNCHANGED <<rows, pc, i>>
                ELSE /\ rows' = Append(rows, make_row_csv(r, res.text))
                     /\ pc' = next_after_row(i + 1, Len(repos_json), Len(rows'))
                     /\ i' = IF pc' = "rows" THEN i + 1 ELSE 0
                     /\ UNCHANGED <<term, exit_status>>
    /\ UNCHANGED <<variant, gh_token, oa_key, repo_list, use_repos,
                   repos_json, written, diag>>

(* add_summaries (json) / add_summaries_to_dataframe (csv): one row *)
add_summaries ==
    /\ term = "running" /\ pc = "summaries"
    /\ \E o \in LlmOutcomes :
         LET row == rows[i + 1]
             s == IF variant = "json"
                  THEN summarize_readme(row.README, row.Description, o)
                  ELSE summarize_readme_csv(row.README, o)
         IN  /\ rows' = [rows EXCEPT ![i + 1].Summary = s.value]
             /\ log' = IF s.called
                       THEN Append(log, Call("llm", row.FullName))
                       ELSE log
    /\ pc' = IF i + 1 = Len(rows) THEN "serialize" ELSE "summaries"
    /\ i' = IF i + 1 = Len(rows) THEN 0 ELSE i + 1
    /\ UNCHANGED <<variant, gh_token, oa_key, repo_list, use_repos,
                   repos_json, written, term, exit_status, diag>>

----------------------------------------------------------------------------
(* Serialization *)

(* json main: build the records, sort them, open the file and dump.        *)
(* Nothing here is inside a try: open() or json.dump raising ends the run  *)
(* with a traceback.                                                       *)
write_json ==
    /\ term = "running" /\ pc = "serialize" /\ variant = "json"
    /\ \E w \in {"ok", "open_fail", "dump_fail"} :
         CASE w = "ok" ->
                /\ written' = [state |-> "complete",
                               content |-> sort_records(build_records(rows))]
                /\ Exit(0)
                /\ pc' = "done"
           [] w = "open_fail" ->
                /\ Uncaught
                /\ UNCHANGED <<written, pc>>
           [] w = "dump_fail" ->
                /\ written' = [state |-> "partial", content |-> << >>]
                /\ Uncaught
                /\ UNCHANGED pc
    /\ UNCHANGED <<variant, gh_token, oa_key, repo_list, use_repos, i,
                   repos_json, rows, diag, log>>

(* csv save_dataframe, then main returns: to_csv inside try/except         *)
save_dataframe ==
    /\ term = "running" /\ pc = "serialize" /\ variant = "csv"
    /\ \E w \in {"ok", "open_fail", "dump_fail"} :
         CASE w = "ok" ->
                /\ written' = [state |-> "complete", content |-> rows]
                /\ UNCHANGED diag
           [] w = "open_fail" ->
                /\ diag' = diag \cup {Diag("save_error", << >>)}
                /\ UNCHANGED written
           [] w = "dump_fail" ->
                /\ written' = [state |-> "partial", content |-> << >>]
                /\ diag' = diag \cup {Diag("save_error", << >>)}
    /\ Exit(0)
    /\ pc' = "done"
    /\ UNCHANGED <<variant, gh_token, oa_key, repo_list, use_repos, i,
                   repos_json, rows, log>>

----------------------------------------------------------------------------
Next ==
    \/ main_env
    \/ main_csv
    \/ fetch_repositories
    \/ fetch_repositories_csv
    \/ fetch_specific_repos
    \/ check_repos
    \/ create_repo_dataframe
    \/ create_repo_dataframe_csv
    \/ add_summaries
    \/ write_json
    \/ save_dataframe

Spec == Init /\ [][Next]_vars

----------------------------------------------------------------------------
(* Vocabulary of the properties *)

\* the repository a serialized record or a row stands for
RecFull(rec) == IF variant = "json" THEN rec.fullName ELSE rec.FullName

\* how many elements of the sequence s stand for the repository `full`
CountFull(s, full) == Cardinality({k \in 1..Len(s) : RecFull(s[k]) = full})
CountRows(full) == Cardinality({k \in 1..Len(rows) : rows[k].FullName = full})

\* how many calls of kind op were issued for `full`
Calls(op, full) ==
    Cardinality({k \in 1..Len(log) : log[k] = Call(op, full)})

\* the listed repositories whose full_name contains '/'
Named == SelectSeq(repos_json, LAMBDA r : \E k \in 1..Len(r.full_name) :
                                               r.full_name[k] = "/")

FileWritten == written.state = "complete"

----------------------------------------------------------------------------
(* C1 *)

\* C1 (as stated): whenever an output file is written, it holds exactly as
\* many records as repositories were listed, one for each of them.
C1_RecordCountPreservation ==
    FileWritten =>
        /\ Len(written.content) = Len(repos_json)
        /\ \A k \in 1..Len(repos_json) :
             CountFull(written.content, repos_json[k].full_name) = 1

\* C1 (amended): whatever the README and summarization outcomes, the rows
\* handed to the summarizer and the records written stand one to one for the
\* listed repositories that the row builder keeps: all of them in the csv
\* variant, those whose full_name contains '/' in the json variant.
C1_RecordPerNamedRepository ==
    LET kept == IF variant = "json" THEN Named ELSE repos_json
    IN  /\ pc \in {"summaries", "serialize", "done"} =>
             /\ Len(rows) = Len(kept)
             /\ \A k \in 1..Len(kept) : CountRows(kept[k].full_name) = 1
        /\ FileWritten =>
             /\ Len(written.content) = Len(kept)
             /\ \A k \in 1..Len(kept) :
                  CountFull(written.content, kept[k].full_name) = 1

\* C1 witness: a json run wrote its file after listing a repository without
\* '/' in its full_name and one whose README metadata request failed (no
\* download followed) and whose summarization fell back.
C1_Witness ==
    /\ variant = "json" /\ FileWritten
    /\ Len(repos_json) = 2 /\ Len(Named) = 1
    /\ \E k \in 1..Len(written.content) :
         /\ Calls("readme", written.content[k].fullName) = 1
         /\ Calls("download", written.content[k].fullName) = 0
         /\ written.content[k].summary = "description fallback"

----------------------------------------------------------------------------
(* C2 *)

\* C2 (as stated): a failing README fetch never ends the run; every listed
\* repository the row builder keeps still gets its row, and every row that
\* reaches the output carries a summary that is not null.
C2_SoftFailureIsolation ==
    LET kept == IF variant = "json" THEN Named ELSE repos_json
    IN  /\ ~(term = "uncaught" /\ pc = "rows")
        /\ pc \in {"summaries", "serialize", "done"} =>
             \A k \in 1..Len(kept) : CountRows(kept[k].full_name) = 1
        /\ FileWritten =>
             \A k \in 1..Len(rows) : rows[k].Summary # NoneV

----------------------------------------------------------------------------
(* C3 *)

\* the listing call of the all-repos mode failed
ListingFailed ==
    /\ ~use_repos
    /\ \/ Diag("list_error", << >>) \in diag
       \/ term = "uncaught" /\ pc = "list"

\* C3 (as stated): after a failed listing call in all-repos mode the run
\* ends with the error reported, no repository listed, a non-zero exit
\* status and no output file.
C3_ListingFailureAborts ==
    (ListingFailed /\ term # "running") =>
        /\ diag # {}
        /\ repos_json = << >>
        /\ exit_status # 0
        /\ written.state = "none"

----------------------------------------------------------------------------
(* C4 *)

\* entry e of --repos is well formed and its request was answered with 200
EntrySucceeded(e) ==
    /\ \E k \in 1..Len(e) : e[k] = "/"
    /\ Diag("could_not_fetch", e) \notin diag

\* C4 (as stated): in explicit-list mode no single entry ends the run; once
\* the list is worked through, every well-formed entry was requested once
\* and the result holds the entries whose request succeeded, in list order.
C4_ExplicitListSkipsOnlyFailedEntry ==
    use_repos =>
        /\ ~(term = "uncaught" /\ pc = "specific")
        /\ pc \notin {"start", "specific"} =>
             /\ \A k \in 1..Len(repo_list) :
                  (\E j \in 1..Len(repo_list[k]) : repo_list[k][j] = "/")
                      => Calls("repo", repo_list[k]) = 1
             /\ [k \in 1..Len(repos_json) |-> repos_json[k].full_name]
                    = SelectSeq(repo_list, EntrySucceeded)

----------------------------------------------------------------------------
(* C5 *)

\* the token or the key is unset or empty
EnvAbsent == gh_token \in {NoneV, ""} \/ oa_key \in {NoneV, ""}

\* C5: in the json script, when GITHUB_TOKEN or OPENAI_API_KEY is unset or
\* empty, no network call is ever issued and no file is written, and the
\* only step the run takes is the exit with status 1 and a diagnostic.
C5_MissingConfigFatal ==
    (variant = "json" /\ EnvAbsent) =>
        /\ log = << >>
        /\ written.state = "none"
        /\ pc = "start"
        /\ term # "uncaught"
        /\ term = "exit" =>
             exit_status = 1 /\ Diag("env_missing", << >>) \in diag

\* C5 witness: the run exited on a missing key although the token was set
C5_Witness ==
    /\ variant = "json" /\ gh_token = "tok" /\ oa_key = NoneV
    /\ term = "exit" /\ exit_status = 1 /\ log = << >>

----------------------------------------------------------------------------
(* C6 *)

\* how often record rec occurs in the sequence s
Occurrences(s, rec) == Cardinality({k \in 1..Len(s) : s[k] = rec})

\* C6: the array written by the json script is in descending order of stars
\* and is a permutation of the records built from the rows.
C6_SortedByStarsDescending ==
    (variant = "json" /\ FileWritten) =>
        LET out == written.content
            built == [k \in 1..Len(rows) |-> make_record(rows[k])]
        IN  /\ \A k \in 1..(Len(out) - 1) : out[k].stars >= out[k + 1].stars
            /\ Len(out) = Len(built)
            /\ \A k \in 1..Len(built) :
                 Occurrences(out, built[k]) = Occurrences(built, built[k])

\* C6 witness: two records were written in another order than they were built
C6_Witness ==
    /\ variant = "json" /\ FileWritten
    /\ Len(written.content) = 2
    /\ written.content[1].fullName = rows[2].FullName
    /\ written.content[2].fullName = rows[1].FullName
    /\ rows[1].Stars < rows[2].Stars

----------------------------------------------------------------------------
(* C7 *)

\* C7: every written record of the json script carries the star and fork
\* counts of its repository, and featured exactly when stars > 5 or forks > 2.
C7_FeaturedRule ==
    (variant = "json" /\ FileWritten) =>
        \A k \in 1..Len(written.content) :
            LET rec == written.content[k]
            IN  /\ rec.featured <=> (rec.stars > 5 \/ rec.forks > 2)
                /\ \E j \in 1..Len(repos_json) :
                     /\ repos_json[j].full_name = rec.fullName
                     /\ repos_json[j].stargazers_count = rec.stars
                     /\ repos_json[j].forks_count = rec.forks

\* C7 witness: a written array with both sides of the boundary, stars = 5
\* and forks = 2 not featured, stars = 6 and forks = 2 featured
C7_Witness ==
    /\ variant = "json" /\ FileWritten
    /\ \E k \in 1..Len(written.content) :
         /\ written.content[k].stars = 5 /\ written.content[k].forks = 2
         /\ ~written.content[k].featured
    /\ \E k \in 1..Len(written.content) :
         /\ written.content[k].stars = 6 /\ written.content[k].forks = 2
         /\ written.content[k].featured

----------------------------------------------------------------------------
(* C8 *)

\* row k has been through the summarizer
Summarized(k) == rows[k].Summary # NoneV

\* for the summarized row k: empty README and empty description give the
\* summary "" and no remote call, and a remote call means that one of the
\* two is not empty
NoCallOnEmptyInputs(k) ==
    LET calls == Calls("llm", rows[k].FullName)
        empty == rows[k].README = "" /\ rows[k].Description = ""
    IN  /\ empty => (rows[k].Summary = "" /\ calls = 0)
        /\ calls > 0 => ~empty

\* C8 (as stated): for every summarized row, in every script.
C8_NoCallOnEmptyInputs ==
    \A k \in 1..Len(rows) : Summarized(k) => NoCallOnEmptyInputs(k)

\* C8 (amended): for every summarized row of the json script; the csv
\* script issues exactly one remote call for every summarized row, whatever
\* its README and description.
C8_NoCallOnEmptyInputsJson ==
    \A k \in 1..Len(rows) :
        Summarized(k) =>
            IF variant = "json"
            THEN NoCallOnEmptyInputs(k)
            ELSE Calls("llm", rows[k].FullName) = 1

\* C8 witness: the json script summarized a row with empty README and empty
\* description, and a row for which it called the endpoint
C8_Witness ==
    /\ variant = "json" /\ Len(rows) = 2
    /\ Summarized(1) /\ Summarized(2)
    /\ rows[1].README = "" /\ rows[1].Description = ""
    /\ Calls("readme", rows[1].FullName) = 1
    /\ Calls("llm", rows[1].FullName) = 0
    /\ Calls("llm", rows[2].FullName) = 1

----------------------------------------------------------------------------
(* C9 *)

\* writing the output file failed
WriteFailed ==
    \/ Diag("save_error", << >>) \in diag
    \/ variant = "json" /\ term = "uncaught" /\ pc = "serialize"

\* C9 (as stated): a failed write is caught and reported and the process
\* exits with a non-zero status; a run that reached the serialization ends
\* either with the file written and status 0 or with an error reported and
\* a non-zero status.
C9_WriteFailureReported ==
    /\ WriteFailed =>
         /\ term = "exit"
         /\ Diag("save_error", << >>) \in diag
         /\ exit_status # 0
    /\ (pc \in {"serialize", "done"} /\ term # "running") =>
         \/ FileWritten /\ term = "exit" /\ exit_status = 0
         \/ ~FileWritten /\ term = "exit" /\ diag # {} /\ exit_status # 0

----------------------------------------------------------------------------
(* C10 *)

\* C10 (as stated): the README fetch of a repository begins only after the
\* repository before it was summarized, so a row never has an unsummarized
\* row before it; the file is touched after the last summarization.  Stated
\* for the json script, whose main and add_summaries the claim is about.
C10_PairwiseInterleaving ==
    variant = "json" =>
        /\ \A k \in 1..(Len(rows) - 1) : Summarized(k)
        /\ written.state # "none" => \A k \in 1..Len(rows) : Summarized(k)

\* C10 (amended): every README request and download is issued before the
\* first summarization request; summarization starts only when the row loop
\* has run over every listed repository, then follows row order; the file is
\* touched only after the last summarization.
C10_FetchAllThenSummarizeAll ==
    LET kept == IF variant = "json" THEN Named ELSE repos_json
    IN  /\ \A a, b \in 1..Len(log) :
             (log[a].op = "llm" /\ log[b].op \in {"readme", "download"})
                 => b < a
        /\ (pc = "summaries" \/ \E k \in 1..Len(rows) : Summarized(k)) =>
             /\ pc \in {"summaries", "serialize", "done"}
             /\ Len(rows) = Len(kept)
        /\ pc = "summaries" =>
             \A k \in 1..Len(rows) : Summarized(k) <=> k <= i
        /\ pc = "rows" => i < Len(repos_json)
        /\ (pc \in {"serialize", "done"} \/ written.state # "none") =>
             /\ \A k \in 1..Len(rows) : Summarized(k)
             /\ written.state # "none" => pc \in {"serialize", "done"}

\* C10 witness: a run over two repositories fetched both READMEs, called
\* the summarizer for both and wrote its file
C10_Witness ==
    /\ FileWritten /\ Len(rows) = 2
    /\ \A k \in 1..2 :
         /\ Calls("readme", rows[k].FullName) = 1
         /\ Calls("llm", rows[k].FullName) = 1

----------------------------------------------------------------------------
(* C11 *)

\* every repository or list entry a request can be about
AllTargets == {r.full_name : r \in RepoPool} \cup EntryPool

\* each per-repository request was issued at most once for each target
OncePerTarget ==
    \A t \in AllTargets :
        /\ Calls("repo", t) <= 1
        /\ Calls("readme", t) <= 1
        /\ Calls("download", t) <= 1
        /\ Calls("llm", t) <= 1

\* the first, unauthenticated listing attempt of the json script failed
PublicAttemptFailed ==
    \/ Diag("public_status", << >>) \in diag
    \/ Diag("public_attempt_failed", << >>) \in diag

\* C11 (as stated): the list-repositories request is issued at most once in
\* a run, and the README metadata request and the summarization request at
\* most once for each repository.
C11_NothingRetried ==
    /\ Calls("list", << >>) <= 1
    /\ OncePerTarget

\* C11 (amended): the per-repository requests are issued at most once for
\* each repository; the csv script issues the list request at most once; the
\* json script issues it at most twice, the second time (with the token)
\* only after its first, unauthenticated attempt failed, and a failed second
\* attempt ends the run.
C11_OneShotPerTarget ==
    /\ OncePerTarget
    /\ Calls("list", << >>) <= 2
    /\ variant = "csv" => Calls("list", << >>) <= 1
    /\ Calls("list", << >>) = 2 => PublicAttemptFailed
    /\ (PublicAttemptFailed /\ pc = "list") => term = "uncaught"

\* C11 witness: a json run listed on its second attempt, then had the README
\* metadata request and the summarization of a repository fail once each
\* and wrote its file with the fallback
C11_Witness ==
    /\ variant = "json" /\ FileWritten
    /\ Calls("list", << >>) = 2
    /\ \E k \in 1..Len(rows) :
         /\ Calls("readme", rows[k].FullName) = 1
         /\ Calls("download", rows[k].FullName) = 0
         /\ Calls("llm", rows[k].FullName) = 1
         /\ rows[k].Summary = "description fallback"

====
